---- MODULE Spec2Model ----
(***************************************************************************)
(* Model of the AssessmentBetter repository: the Express application       *)
(* (middleware stack json -> routes -> fallback) serving concurrently      *)
(* in-flight requests, and the GitHub Actions CI/CD workflow               *)
(* (build-and-test -> build-and-deploy -> notify).                         *)
(***************************************************************************)
EXTENDS Integers, Sequences, FiniteSets, TLC

VARIABLES loaded, conn, wf, registry, deployed, slack, runs

vars == <<loaded, conn, wf, registry, deployed, slack, runs>>
httpVars == <<loaded, conn>>
ciVars == <<wf, registry, deployed, slack, runs>>

(***************************************************************************)
(* Bounds                                                                  *)
(***************************************************************************)
NumClients == 2
MaxRuns == 2

Clients == 1..NumClients

(***************************************************************************)
(* HTTP requests and responses                                             *)
(***************************************************************************)
Methods == {"GET", "HEAD", "OPTIONS", "POST", "PUT", "DELETE"}
Paths == {"/", "/unknown"}
\* "none": no body; "json": well-formed JSON declared as application/json;
\* "malformed": declared as application/json but not parseable.
Bodies == {"none", "json", "malformed"}

Requests == [method : Methods, path : Paths, body : Bodies]

NoReq == [method |-> "-", path |-> "-", body |-> "-"]
NoRes == [status |-> 0, ctype |-> "-", body |-> "-", allow |-> "-"]

JsonType == "application/json"
HtmlType == "text/html"

\* JSON.stringify of an object with a single string-valued key, as res.json
\* serialises it.
JsonStringify(o) == "{\"" \o o.key \o "\":\"" \o o.value \o "\"}"

\* A HEAD response carries the headers of the response but no body.
WireBody(req, body) == IF req.method = "HEAD" THEN "" ELSE body

\* Variant: the object is serialised but sent with res.send's default type.
ResJsonAsText(req, s, o) ==
    [status |-> s, ctype |-> HtmlType, body |-> WireBody(req, JsonStringify(o)),
     allow |-> "-"]

\* res.status(s).json(o)
ResJson(req, s, o) ==
    [status |-> s, ctype |-> JsonType, body |-> WireBody(req, JsonStringify(o)),
     allow |-> "-"]

\* res.send(text) with the default status 200
ResSend(req, text) ==
    [status |-> 200, ctype |-> HtmlType, body |-> WireBody(req, text), allow |-> "-"]

(***************************************************************************)
(* Modules a test can load: '../src/app' and '../src/index'                *)
(***************************************************************************)
Modules == {"app", "index"}

\* Variants of the registration order: the 404 handler registered before the
\* routes; the body parser registered after the routes.
AppStackFallbackFirst == <<"json", "fallback", "routes">>
AppStackJsonAfterRoutes == <<"routes", "json", "fallback">>

\* The middleware stack in registration order.
AppStack == <<"json", "routes", "fallback">>
IndexStack == <<"routes", "fallback">>

Stack(m) == IF m = "app" THEN AppStack ELSE IndexStack

\* The stage after stage s in the stack of module m ("final" past the end).
NextStage(m, s) ==
    LET st == Stack(m)
        k == CHOOSE i \in 1..Len(st) : st[i] = s
    IN IF k < Len(st) THEN st[k + 1] ELSE "final"

WelcomePayload == [key |-> "message", value |-> "Welcome to Node.js App"]
\* Variant: the error text under the key of the welcome payload.
NotFoundPayloadMessage == [key |-> "message", value |-> "Not Found"]
NotFoundPayload == [key |-> "error", value |-> "Not Found"]
HelloText == "Hello World"

\* Handler of the root route of ./routes (module app).
WelcomeHandler(req) == ResJson(req, 200, WelcomePayload)

\* Variant: the index module answers with the JSON welcome payload.
HelloHandlerAsWelcome(req) == ResJson(req, 200, WelcomePayload)

\* Handler of the root route of module index.
HelloHandler(req) == ResSend(req, HelloText)

RootHandler(m, req) == IF m = "app" THEN WelcomeHandler(req) ELSE HelloHandler(req)

\* Methods for which a route registered with .get() runs its handler:
\* the router answers HEAD with the GET handler.
RouteMethods == {"GET", "HEAD"}
RoutePath == "/"

\* The automatic OPTIONS response of the router for a path that has a route.
OptionsResponse(req) ==
    [status |-> 200, ctype |-> HtmlType, body |-> "GET,HEAD", allow |-> "GET,HEAD"]

\* The connections that hold a request that is not answered yet.
InFlight == {k \in Clients : conn[k].stage \notin {"idle", "done"}}

\* Variants of the fallback handler: without status(404); with a body that
\* reports a count kept across requests; answering 503 while another
\* request is in flight.
FallbackHandlerNoStatus(req) == ResJson(req, 200, NotFoundPayload)
FallbackHandlerCounting(req) ==
    ResJson(req, 404, [key |-> "error",
                       value |-> IF Cardinality(InFlight) > 1 THEN "Not Found (2)" ELSE "Not Found"])
FallbackHandlerBusy(req) ==
    ResJson(req, IF Cardinality(InFlight) > 1 THEN 503 ELSE 404, NotFoundPayload)

\* app.use((req, res) => res.status(404).json({ error: 'Not Found' }))
FallbackHandler(req) == ResJson(req, 404, NotFoundPayload)

\* The default error handler answers with the status of the error.
ParseErrorStatus == 400
ErrorResponse(req) ==
    [status |-> ParseErrorStatus, ctype |-> HtmlType,
     body |-> WireBody(req, "SyntaxError"), allow |-> "-"]

\* express.json(): TRUE when the body parser rejects the request.
JsonRejects(req) == req.body = "malformed"

(***************************************************************************)
(* One step of one request through the stack.  A connection is             *)
(* [stage, req, res, sent]: sent counts the responses written.             *)
(***************************************************************************)
IdleConn == [stage |-> "idle", req |-> NoReq, res |-> NoRes, sent |-> 0]

Respond(c, r) == [c EXCEPT !.stage = "done", !.res = r, !.sent = c.sent + 1]

JsonStep(m, c) ==
    IF JsonRejects(c.req)
    THEN [c EXCEPT !.stage = "error"]
    ELSE [c EXCEPT !.stage = NextStage(m, "json")]

RoutesStep(m, c) ==
    IF c.req.path = RoutePath /\ c.req.method \in RouteMethods
    THEN Respond(c, RootHandler(m, c.req))
    ELSE IF c.req.path = RoutePath /\ c.req.method = "OPTIONS"
    THEN Respond(c, OptionsResponse(c.req))
    ELSE [c EXCEPT !.stage = NextStage(m, "routes")]

FallbackStep(m, c) == Respond(c, FallbackHandler(c.req))

ErrorStep(m, c) == Respond(c, ErrorResponse(c.req))

StepConn(m, c) ==
    CASE c.stage = "json" -> JsonStep(m, c)
      [] c.stage = "routes" -> RoutesStep(m, c)
      [] c.stage = "fallback" -> FallbackStep(m, c)
      [] c.stage = "error" -> ErrorStep(m, c)
      [] OTHER -> c

NewConn(m, req) == [stage |-> Stack(m)[1], req |-> req, res |-> NoRes, sent |-> 0]

RECURSIVE RunAlone(_, _)
RunAlone(m, c) == IF c.stage \in {"done", "idle", "final"} THEN c ELSE RunAlone(m, StepConn(m, c))

\* The response a request receives when it is the only request handled.
ResponseAlone(m, req) == RunAlone(m, NewConn(m, req)).res

(***************************************************************************)
(* HTTP actions                                                            *)
(***************************************************************************)
Arrive(i, req) ==
    /\ conn[i].stage = "idle"
    /\ conn' = [conn EXCEPT ![i] = NewConn(loaded, req)]
    /\ UNCHANGED <<loaded, ciVars>>

ExpressJson(i) ==
    /\ conn[i].stage = "json"
    /\ conn' = [conn EXCEPT ![i] = JsonStep(loaded, conn[i])]
    /\ UNCHANGED <<loaded, ciVars>>

Routes(i) ==
    /\ conn[i].stage = "routes"
    /\ conn' = [conn EXCEPT ![i] = RoutesStep(loaded, conn[i])]
    /\ UNCHANGED <<loaded, ciVars>>

Fallback(i) ==
    /\ conn[i].stage = "fallback"
    /\ conn' = [conn EXCEPT ![i] = FallbackStep(loaded, conn[i])]
    /\ UNCHANGED <<loaded, ciVars>>

ErrorHandler(i) ==
    /\ conn[i].stage = "error"
    /\ conn' = [conn EXCEPT ![i] = ErrorStep(loaded, conn[i])]
    /\ UNCHANGED <<loaded, ciVars>>

\* The client has read the response; the connection is free again.
Close(i) ==
    /\ conn[i].stage = "done"
    /\ conn' = [conn EXCEPT ![i] = IdleConn]
    /\ UNCHANGED <<loaded, ciVars>>

InitHttp ==
    /\ loaded \in Modules
    /\ conn = [i \in Clients |-> IdleConn]

(***************************************************************************)
(* CI/CD workflow "Node.js CI/CD Pipeline"                                 *)
(***************************************************************************)
Events == {"pull_request", "push"}
Shas == {"sha1", "sha2"}

JobNames == {"build-and-test", "build-and-deploy", "notify"}

\* Variant: build-and-deploy declared without needs:.
NeedsDeployUnguarded(j) ==
    CASE j = "build-and-test" -> {}
      [] j = "build-and-deploy" -> {}
      [] j = "notify" -> {"build-and-deploy"}

\* needs: of each job
Needs(j) ==
    CASE j = "build-and-test" -> {}
      [] j = "build-and-deploy" -> {"build-and-test"}
      [] j = "notify" -> {"build-and-deploy"}

\* steps: of each job, by name
Steps(j) ==
    CASE j = "build-and-test" ->
           <<"Checkout code", "Set up Node.js", "Install dependencies", "Run tests">>
      [] j = "build-and-deploy" ->
           <<"Checkout code", "Log in to DockerHub", "Build Docker image",
             "Set up AWS credentials", "Set up kubectl for EKS", "Deploy to EKS">>
      [] j = "notify" ->
           <<"Send Slack notification on success", "Send Slack notification on failure">>

\* if: of each step; a step without if: runs on success()
StepIf(name) ==
    IF name = "Send Slack notification on failure" THEN "failure" ELSE "success"

\* Steps whose effect on the registry, the cluster or Slack is modelled apart.
EffectSteps ==
    {"Build Docker image", "Deploy to EKS",
     "Send Slack notification on success", "Send Slack notification on failure"}

SuccessMessage == "Deployment successful! App is live."
FailureMessage == "Deployment failed. Please check the logs."

Completed == {"success", "failure", "skipped"}

NoRun ==
    [phase |-> "idle", event |-> "-", sha |-> "-",
     result |-> [j \in JobNames |-> "queued"],
     step |-> [j \in JobNames |-> 1],
     failed |-> [j \in JobNames |-> FALSE],
     pushed |-> FALSE, imageSet |-> FALSE,
     deployedBefore |-> "none", registryBefore |-> {}, slackBefore |-> 0]

\* A job without if: starts only when every job it needs succeeded;
\* otherwise it is skipped.
NeedsCompleted(j) == \A n \in Needs(j) : wf.result[n] \in Completed
NeedsSucceeded(j) == \A n \in Needs(j) : wf.result[n] = "success"

\* The step job j is at, "-" when its steps are exhausted.
CurStep(j) ==
    IF wf.phase = "running" /\ wf.result[j] = "in_progress" /\ wf.step[j] <= Len(Steps(j))
    THEN Steps(j)[wf.step[j]]
    ELSE "-"

\* success(): no earlier step of the job failed; failure(): one did.
StepCondition(j, name) ==
    IF StepIf(name) = "failure" THEN wf.failed[j] ELSE ~wf.failed[j]

\* The run record after the current step of job j ended with outcome ok.
Advance(j, ok) ==
    [wf EXCEPT !.step[j] = @ + 1, !.failed[j] = @ \/ ~ok]

Trigger(ev, sha) ==
    /\ wf.phase \in {"idle", "done"}
    /\ runs < MaxRuns
    /\ runs' = runs + 1
    /\ wf' = [NoRun EXCEPT !.phase = "running", !.event = ev, !.sha = sha,
                           !.deployedBefore = deployed, !.registryBefore = registry,
                           !.slackBefore = Len(slack)]
    /\ UNCHANGED <<registry, deployed, slack, httpVars>>

StartJob(j) ==
    /\ wf.phase = "running"
    /\ wf.result[j] = "queued"
    /\ NeedsCompleted(j)
    /\ NeedsSucceeded(j)
    /\ wf' = [wf EXCEPT !.result[j] = "in_progress"]
    /\ UNCHANGED <<registry, deployed, slack, runs, httpVars>>

SkipJob(j) ==
    /\ wf.phase = "running"
    /\ wf.result[j] = "queued"
    /\ NeedsCompleted(j)
    /\ ~NeedsSucceeded(j)
    /\ wf' = [wf EXCEPT !.result[j] = "skipped"]
    /\ UNCHANGED <<registry, deployed, slack, runs, httpVars>>

\* A step with no modelled effect: checkout, setup-node, npm install,
\* npm test, docker login, AWS credentials, kubeconfig.
PlainStep(j, ok) ==
    /\ CurStep(j) # "-"
    /\ CurStep(j) \notin EffectSteps
    /\ StepCondition(j, CurStep(j))
    /\ wf' = Advance(j, ok)
    /\ UNCHANGED <<registry, deployed, slack, runs, httpVars>>

\* A step whose if: is false is skipped.
SkipStep(j) ==
    /\ CurStep(j) # "-"
    /\ ~StepCondition(j, CurStep(j))
    /\ wf' = Advance(j, TRUE)
    /\ UNCHANGED <<registry, deployed, slack, runs, httpVars>>

\* docker build ...; docker push ...   (the run: script stops at the first
\* failing command)
BuildDockerImage(j, buildOk, pushOk) ==
    /\ CurStep(j) = "Build Docker image"
    /\ StepCondition(j, CurStep(j))
    /\ LET didPush == buildOk /\ pushOk
       IN /\ registry' = IF didPush THEN registry \cup {wf.sha} ELSE registry
          /\ wf' = [Advance(j, didPush) EXCEPT !.pushed = @ \/ didPush]
    /\ UNCHANGED <<deployed, slack, runs, httpVars>>

\* kubectl set image ...; kubectl rollout status ...
DeployToEKS(j, setOk, rolloutOk) ==
    /\ CurStep(j) = "Deploy to EKS"
    /\ StepCondition(j, CurStep(j))
    /\ deployed' = IF setOk THEN wf.sha ELSE deployed
    /\ wf' = [Advance(j, setOk /\ rolloutOk) EXCEPT !.imageSet = @ \/ setOk]
    /\ UNCHANGED <<registry, slack, runs, httpVars>>

\* curl -X POST ... SLACK_WEBHOOK_URL; the message is posted when curl succeeds
SlackSuccess(j, ok) ==
    /\ CurStep(j) = "Send Slack notification on success"
    /\ StepCondition(j, CurStep(j))
    /\ slack' = IF ok THEN Append(slack, SuccessMessage) ELSE slack
    /\ wf' = Advance(j, ok)
    /\ UNCHANGED <<registry, deployed, runs, httpVars>>

SlackFailure(j, ok) ==
    /\ CurStep(j) = "Send Slack notification on failure"
    /\ StepCondition(j, CurStep(j))
    /\ slack' = IF ok THEN Append(slack, FailureMessage) ELSE slack
    /\ wf' = Advance(j, ok)
    /\ UNCHANGED <<registry, deployed, runs, httpVars>>

FinishJob(j) ==
    /\ wf.phase = "running"
    /\ wf.result[j] = "in_progress"
    /\ wf.step[j] > Len(Steps(j))
    /\ wf' = [wf EXCEPT !.result[j] = IF wf.failed[j] THEN "failure" ELSE "success"]
    /\ UNCHANGED <<registry, deployed, slack, runs, httpVars>>

Complete ==
    /\ wf.phase = "running"
    /\ \A j \in JobNames : wf.result[j] \in Completed
    /\ wf' = [wf EXCEPT !.phase = "done"]
    /\ UNCHANGED <<registry, deployed, slack, runs, httpVars>>

\* The messages posted to Slack since the current run was triggered.
PostedThisRun == {slack[k] : k \in (wf.slackBefore + 1)..Len(slack)}

InitCI ==
    /\ wf = NoRun
    /\ registry = {}
    /\ deployed = "none"
    /\ slack = <<>>
    /\ runs = 0

Init == InitHttp /\ InitCI

Next ==
    \/ \E i \in Clients, req \in Requests : Arrive(i, req)
    \/ \E i \in Clients : ExpressJson(i)
    \/ \E i \in Clients : Routes(i)
    \/ \E i \in Clients : Fallback(i)
    \/ \E i \in Clients : ErrorHandler(i)
    \/ \E i \in Clients : Close(i)

Spec == Init /\ [][Next]_vars

NextCI ==
    \/ \E ev \in Events, sha \in Shas : Trigger(ev, sha)
    \/ \E j \in JobNames : StartJob(j)
    \/ \E j \in JobNames : SkipJob(j)
    \/ \E j \in JobNames, ok \in BOOLEAN : PlainStep(j, ok)
    \/ \E j \in JobNames : SkipStep(j)
    \/ \E j \in JobNames, b \in BOOLEAN, p \in BOOLEAN : BuildDockerImage(j, b, p)
    \/ \E j \in JobNames, s \in BOOLEAN, r \in BOOLEAN : DeployToEKS(j, s, r)
    \/ \E j \in JobNames, ok \in BOOLEAN : SlackSuccess(j, ok)
    \/ \E j \in JobNames, ok \in BOOLEAN : SlackFailure(j, ok)
    \/ \E j \in JobNames : FinishJob(j)
    \/ Complete

SpecCI == Init /\ [][NextCI]_vars

(***************************************************************************)
(* Properties                                                              *)
(***************************************************************************)
WelcomeJson == "{\"message\":\"Welcome to Node.js App\"}"
NotFoundJson == "{\"error\":\"Not Found\"}"

Done(i) == conn[i].stage = "done"
Rejected(req) == req.body = "malformed"
IsGetRoot(req) == req.method = "GET" /\ req.path = "/"

\* C1 (as stated): every GET / served by module app is answered 200 with the
\* JSON welcome message and never reaches the 404 fallback handler.
C1_Original ==
    \A i \in Clients :
        (loaded = "app" /\ IsGetRoot(conn[i].req)) =>
            /\ conn[i].stage # "fallback"
            /\ Done(i) => /\ conn[i].res.status = 200
                          /\ conn[i].res.body = WelcomeJson

\* C1 (amended): every GET / served by module app whose body the JSON body
\* parser does not reject is answered 200 with the JSON welcome message and
\* never reaches the 404 fallback handler.
C1_WelcomeOnRoot ==
    \A i \in Clients :
        (loaded = "app" /\ IsGetRoot(conn[i].req) /\ ~Rejected(conn[i].req)) =>
            /\ conn[i].stage # "fallback"
            /\ Done(i) => /\ conn[i].res.status = 200
                          /\ conn[i].res.body = WelcomeJson

C1_Witness ==
    \E i \in Clients :
        /\ loaded = "app" /\ Done(i) /\ IsGetRoot(conn[i].req)
        /\ conn[i].req.body = "json" /\ conn[i].res.status = 200

\* C2 (as stated): every GET request for a path that is not a registered
\* route is answered 404 with the body {"error":"Not Found"}.
C2_Original ==
    \A i \in Clients :
        (loaded = "app" /\ Done(i) /\ conn[i].req.method = "GET"
                        /\ conn[i].req.path # RoutePath) =>
            /\ conn[i].res.status = 404
            /\ conn[i].res.body = NotFoundJson

\* C2 (amended): every GET request for a path that is not a registered route
\* and whose body the JSON body parser does not reject is answered 404 with
\* the body {"error":"Not Found"}.
C2_UnknownPathNotFound ==
    \A i \in Clients :
        (loaded = "app" /\ Done(i) /\ conn[i].req.method = "GET"
                        /\ conn[i].req.path # RoutePath /\ ~Rejected(conn[i].req)) =>
            /\ conn[i].res.status = 404
            /\ conn[i].res.body = NotFoundJson

C2_Witness ==
    \E i \in Clients :
        /\ loaded = "app" /\ Done(i) /\ conn[i].req.method = "GET"
        /\ conn[i].req.path = "/unknown" /\ conn[i].res.status = 404

RouteMatched(req) == req.path = "/" /\ req.method \in {"GET", "HEAD", "OPTIONS"}

C6_Idempotent ==
    \A i, j \in Clients :
        (Done(i) /\ Done(j) /\ conn[i].req = conn[j].req) => conn[i].res = conn[j].res

C6_Witness ==
    \E i, j \in Clients :
        /\ i # j /\ Done(i) /\ Done(j) /\ conn[i].req = conn[j].req
        /\ conn[i].res.status = 404

\* C7: the 200 welcome response of GET / and every 404 response of the
\* fallback handler carry the content type application/json.
C7_JsonContentType ==
    \A i \in Clients :
        (loaded = "app" /\ Done(i)
           /\ \/ IsGetRoot(conn[i].req) /\ conn[i].res.status = 200
              \/ conn[i].res.status = 404) =>
            conn[i].res.ctype = "application/json"

C7_Witness ==
    \E i, j \in Clients :
        /\ loaded = "app" /\ Done(i) /\ Done(j)
        /\ IsGetRoot(conn[i].req) /\ conn[i].res.status = 200
        /\ conn[j].res.status = 404

\* C10: under any interleaving, a request is answered exactly once, with the
\* response it receives when it is handled alone.
C10_Isolation ==
    \A i \in Clients :
        /\ conn[i].sent <= 1
        /\ conn[i].stage # "final"
        /\ Done(i) => /\ conn[i].sent = 1
                      /\ conn[i].res = ResponseAlone(loaded, conn[i].req)

C10_Witness ==
    \E i, j \in Clients :
        /\ i # j /\ Done(i) /\ conn[i].res.status = 404
        /\ conn[j].stage \in {"json", "routes", "fallback", "error"}

JobFailed(j) == wf.result[j] = "failure"

\* C8 (as stated): a finished run has posted the success message when
\* build-and-test and build-and-deploy both succeeded, and the failure
\* message when one of them failed.
C8_Claim ==
    wf.phase = "done" =>
        /\ (wf.result["build-and-test"] = "success"
              /\ wf.result["build-and-deploy"] = "success")
             => SuccessMessage \in PostedThisRun
        /\ (JobFailed("build-and-test") \/ JobFailed("build-and-deploy"))
             => FailureMessage \in PostedThisRun

\* C9: in a run, the image is pushed and the deployment's image is set only
\* after build-and-test succeeded, and the deployment's image is set only
\* after the image of the run's commit was pushed; when build-and-test did
\* not succeed the registry and the deployment are as the run found them.
C9_DeployAfterTests ==
    /\ wf.pushed => (wf.result["build-and-test"] = "success" /\ wf.sha \in registry)
    /\ wf.imageSet => (wf.pushed /\ wf.result["build-and-test"] = "success")
    /\ (wf.phase # "idle" /\ wf.result["build-and-test"] # "success") =>
          /\ registry = wf.registryBefore
          /\ deployed = wf.deployedBefore

C9_Witness ==
    /\ wf.phase = "done" /\ wf.imageSet /\ deployed = wf.sha
    /\ runs = 2 /\ wf.deployedBefore # wf.sha

====
